---- MODULE Spec2Model ----
(***************************************************************************)
(* A model of src/Dice.js: the Dice and FairRandomGenerator classes, the   *)
(* calculateProbabilities helper and the NonTransitiveDiceGame session     *)
(* driven by lines arriving on standard input.                             *)
(*                                                                         *)
(* JavaScript strings that the program parses or that a verifier has to    *)
(* parse again (input lines, dice tokens, hex keys, toFixed results) are   *)
(* sequences of one-character strings, so that parsing and formatting are   *)
(* computed and not assumed.                                               *)
(***************************************************************************)
EXTENDS Integers, Sequences, FiniteSets

VARIABLES
    proc,                 \* "boot" before the main block ran, "running", "exit"
    exitCode,             \* the code given to process.exit, -1 while none
    argv,                 \* process.argv.slice(2): the dice configurations
    originalDiceConfigs,  \* NonTransitiveDiceGame.originalDiceConfigs
    dice,                 \* NonTransitiveDiceGame.dice
    userDice,             \* NonTransitiveDiceGame.userDice
    computerDice,         \* NonTransitiveDiceGame.computerDice
    gens,                 \* every FairRandomGenerator instance constructed so far
    listeners,            \* the pending process.stdin.once('data', ...) callbacks
    out,                  \* the protocol lines written to the console (HMAC, KEY,
                          \* who moves first, the dice chosen), and the lines the
                          \* first-move callback consumed, in order
    table,                \* the matrix renderHelpTable last got from calculateProbabilities
    throws,               \* the rolls and the verdict of performThrows, until the
                          \* next callback runs
    calls                 \* the calls a client made on FairRandomGenerator instances

vars == <<proc, exitCode, argv, originalDiceConfigs, dice, userDice, computerDice,
          gens, listeners, out, table, throws, calls>>

(***************************************************************************)
(* Bounds of the model and constants of the program.                       *)
(***************************************************************************)
MaxRounds == 2
MaxClientGens == 2
MaxClientCalls == 3
MaxRange == 3

KeyBytes == 32
Faces == 6
MinDice == 3
MinArgs == 3
FirstMoveRange == 2
Radix == 10
FixedDigits == 4

Null == [null |-> TRUE]

(***************************************************************************)
(* Strings, numbers and their conversions.                                 *)
(***************************************************************************)
DigitChars == <<"0", "1", "2", "3", "4", "5", "6", "7", "8", "9">>
HexChars == <<"0", "1", "2", "3", "4", "5", "6", "7", "8", "9",
              "a", "b", "c", "d", "e", "f">>
Whitespace == {" ", "\n", "\t", "\r"}

IsDigit(c) == \E i \in 1..Len(DigitChars) : DigitChars[i] = c
DigitVal(c) == (CHOOSE i \in 1..Len(DigitChars) : DigitChars[i] = c) - 1
HexVal(c) == (CHOOSE i \in 1..Len(HexChars) : HexChars[i] = c) - 1

RECURSIVE Pow(_, _)
Pow(b, e) == IF e = 0 THEN 1 ELSE b * Pow(b, e - 1)

\* String.prototype.trim
RECURSIVE TrimLeft(_)
TrimLeft(s) == IF s # <<>> /\ Head(s) \in Whitespace THEN TrimLeft(Tail(s)) ELSE s
RECURSIVE TrimRight(_)
TrimRight(s) ==
    IF s # <<>> /\ s[Len(s)] \in Whitespace
    THEN TrimRight(SubSeq(s, 1, Len(s) - 1)) ELSE s
Trim(s) == TrimRight(TrimLeft(s))

\* String.prototype.toUpperCase on the letters the inputs use
UpperChar(c) ==
    CASE c = "y" -> "Y" [] c = "n" -> "N" [] c = "x" -> "X" [] OTHER -> c
ToUpperCase(s) == [i \in 1..Len(s) |-> UpperChar(s[i])]

\* the value of a sequence of decimal digits
RECURSIVE DecimalValue(_)
DecimalValue(s) ==
    IF s = <<>> THEN 0
    ELSE Radix * DecimalValue(SubSeq(s, 1, Len(s) - 1)) + DigitVal(s[Len(s)])

\* the longest prefix of s made of digits
RECURSIVE DigitPrefix(_)
DigitPrefix(s) ==
    IF s # <<>> /\ IsDigit(Head(s)) THEN <<Head(s)>> \o DigitPrefix(Tail(s)) ELSE <<>>

\* parseInt(s, 10): optional sign, then the leading digits; NaN without any
ParseInt(s) ==
    LET t == TrimLeft(s)
        neg == t # <<>> /\ Head(t) = "-"
        u == IF t # <<>> /\ Head(t) \in {"-", "+"} THEN Tail(t) ELSE t
        d == DigitPrefix(u)
    IN IF d = <<>> THEN [isNaN |-> TRUE, n |-> 0]
       ELSE [isNaN |-> FALSE, n |-> IF neg THEN 0 - DecimalValue(d) ELSE DecimalValue(d)]

\* Number(token) for the tokens of a dice configuration, with
\* Number.isInteger of the result: the empty token is 0, a signed run of
\* digits is that integer, anything else here ("x", "1.5") is NaN or a fraction
Number(tok) ==
    LET t == Trim(tok)
        neg == t # <<>> /\ Head(t) = "-"
        u == IF t # <<>> /\ Head(t) \in {"-", "+"} THEN Tail(t) ELSE t
    IN IF t = <<>> THEN [isInteger |-> TRUE, n |-> 0]
       ELSE IF u # <<>> /\ \A i \in 1..Len(u) : IsDigit(u[i])
            THEN [isInteger |-> TRUE,
                  n |-> IF neg THEN 0 - DecimalValue(u) ELSE DecimalValue(u)]
            ELSE [isInteger |-> FALSE, n |-> 0]

\* Number.prototype.toString of an integer
RECURSIVE NatToString(_)
NatToString(n) ==
    IF n < Radix THEN <<DigitChars[n + 1]>>
    ELSE NatToString(n \div Radix) \o <<DigitChars[(n % Radix) + 1]>>
ToString(n) == IF n < 0 THEN <<"-">> \o NatToString(0 - n) ELSE NatToString(n)

\* the digits of n, left-padded with zeros to width w
RECURSIVE PadDigits(_, _)
PadDigits(n, w) ==
    IF w = 0 THEN <<>> ELSE PadDigits(n \div Radix, w - 1) \o <<DigitChars[(n % Radix) + 1]>>

\* (num / den).toFixed(4) for num >= 0, den > 0: rounded to the nearest 1/10000
ToFixed(num, den) ==
    LET scale == Pow(Radix, FixedDigits)
        r == (2 * num * scale + den) \div (2 * den)
    IN NatToString(r \div scale) \o <<".">> \o PadDigits(r % scale, FixedDigits)

\* the number a toFixed(4) string denotes, in units of 1/10000
FixedValue(s) ==
    LET dot == CHOOSE i \in 1..Len(s) : s[i] = "."
    IN DecimalValue(SubSeq(s, 1, dot - 1)) * Pow(Radix, FixedDigits)
       + DecimalValue(SubSeq(s, dot + 1, Len(s)))

\* Buffer.prototype.toString('hex')
RECURSIVE ToHex(_)
ToHex(bytes) ==
    IF bytes = <<>> THEN <<>>
    ELSE <<HexChars[(Head(bytes) \div 16) + 1], HexChars[(Head(bytes) % 16) + 1]>>
         \o ToHex(Tail(bytes))

\* randomInt taken to include its upper limit
randomIntInclusive(max) == 0..max

\* crypto.randomInt(max): the integers it can return; it throws unless max > 0
randomInt(max) == 0..(max - 1)

\* crypto.createHmac('sha3-256', key).update(msg).digest('hex'): a function of
\* the key and the message that distinct inputs do not share
Hmac(key, msg) == <<"hmac-sha3-256", key, msg>>

\* the k-th byte string the entropy source yields
EntropyBytes(size, k) ==
    [i \in 1..size |-> IF i = 1 THEN (171 + 37 * k) % 256 ELSE (i * k) % 256]

\* a key that is the same on every call
randomBytesFixed(size) == {EntropyBytes(size, 1)}

\* crypto.randomBytes(size): 256 random bits do not repeat, so each call
\* returns a byte string no earlier call returned; every call so far was made
\* by a FairRandomGenerator constructor, one per instance
randomBytes(size) == {EntropyBytes(size, Len(gens) + 1)}

(***************************************************************************)
(* class Dice                                                              *)
(***************************************************************************)
\* a constructor that checks the number of faces only
DiceLengthOnly(values) ==
    IF Len(values) # Faces
    THEN [threw |-> TRUE, values |-> <<>>]
    ELSE [threw |-> FALSE, values |-> [k \in 1..Len(values) |-> values[k].n]]

\* new Dice(values): values are Number(...) results; a thrown Error, or the
\* object. The faces of a constructed die are integers and are kept as such.
Dice(values) ==
    IF ~(\A k \in 1..Len(values) : values[k].isInteger) \/ Len(values) # Faces
    THEN [threw |-> TRUE, values |-> <<>>]
    ELSE [threw |-> FALSE, values |-> [k \in 1..Len(values) |-> values[k].n]]

\* Dice.roll(): the faces it can return
roll(d) == {d.values[k + 1] : k \in randomInt(Len(d.values))}

(***************************************************************************)
(* class FairRandomGenerator                                               *)
(***************************************************************************)
\* new FairRandomGenerator(range), key being what crypto.randomBytes returned
FairRandomGenerator(range, key) == [range |-> range, key |-> key]

\* generateNumber(): the results it can return; crypto.randomInt throws a
\* RangeError when the range is not positive
generateNumber(g) ==
    IF g.range <= 0 THEN {[threw |-> TRUE, number |-> 0, hmac |-> <<>>]}
    ELSE {[threw |-> FALSE, number |-> n, hmac |-> Hmac(g.key, ToString(n))] :
            n \in randomInt(g.range)}

\* a hex encoding that drops the leading zero of a byte below 16
RECURSIVE ToHexUnpadded(_)
ToHexUnpadded(bytes) ==
    IF bytes = <<>> THEN <<>>
    ELSE (IF Head(bytes) < 16 THEN <<>> ELSE <<HexChars[(Head(bytes) \div 16) + 1]>>)
         \o <<HexChars[(Head(bytes) % 16) + 1]>> \o ToHexUnpadded(Tail(bytes))
revealKeyUnpadded(g) == ToHexUnpadded(g.key)

\* revealKey()
revealKey(g) == ToHex(g.key)

(***************************************************************************)
(* calculateProbabilities                                                  *)
(***************************************************************************)
\* dice[i].values.filter(x => dice[j].values.filter(y => x > y).length).length:
\* the faces x of a that exceed at least one face of b
userWins(a, b) ==
    Cardinality({k \in 1..Len(a.values) :
        Cardinality({m \in 1..Len(b.values) : a.values[k] > b.values[m]}) # 0})

\* a matrix whose diagonal is computed like every other entry
calculateProbabilitiesNoDiagonal(d) ==
    [i \in 1..Len(d) |-> [j \in 1..Len(d) |->
        ToFixed(userWins(d[i], d[j]), Len(d[j].values))]]

calculateProbabilities(d) ==
    [i \in 1..Len(d) |-> [j \in 1..Len(d) |->
        IF i = j THEN <<"-">>
        ELSE ToFixed(userWins(d[i], d[j]), Len(d[j].values))]]

(***************************************************************************)
(* class NonTransitiveDiceGame                                             *)
(***************************************************************************)
\* diceConfigs.map(config => new Dice(config.split(',').map(Number))): a
\* configuration is held as its comma-separated tokens; pos is the place of a
\* die in the configuration list and stands for the identity of the object
DiceOf(configs) ==
    [i \in 1..Len(configs) |->
        LET d == Dice([k \in 1..Len(configs[i]) |-> Number(configs[i][k])])
        IN [threw |-> d.threw, values |-> d.values, pos |-> i]]

StripThrew(ds) == [i \in 1..Len(ds) |-> [values |-> ds[i].values, pos |-> ds[i].pos]]

\* new NonTransitiveDiceGame(diceConfigs)
NonTransitiveDiceGame(diceConfigs) ==
    IF Len(diceConfigs) < MinDice \/ \E i \in 1..Len(diceConfigs) : DiceOf(diceConfigs)[i].threw
    THEN [threw |-> TRUE, originalDiceConfigs |-> <<>>, dice |-> <<>>]
    ELSE [threw |-> FALSE, originalDiceConfigs |-> diceConfigs,
          dice |-> StripThrew(DiceOf(diceConfigs))]

\* a splice that removes nothing
SpliceNothing(a, index) == a

\* Array.prototype.splice(index, 1) with a zero-based index
Splice(a, index) == SubSeq(a, 1, index) \o SubSeq(a, index + 2, Len(a))

GuessListener(id, data) == [kind |-> "guess", gen |-> id, data |-> data]
DiceListener == [kind |-> "dice"]
ReplayListener == [kind |-> "replay"]

\* a start() that prints the key next to the commitment
StartRevealingKey(d, ls, o) ==
    /\ Len(gens) < MaxRounds
    /\ \E key \in randomBytes(KeyBytes) :
         LET firstMoveGenerator == FairRandomGenerator(FirstMoveRange, key)
             id == Len(gens) + 1
         IN \E firstMoveData \in generateNumber(firstMoveGenerator) :
              /\ ~firstMoveData.threw
              /\ table' = calculateProbabilities(d)
              /\ gens' = Append(gens, firstMoveGenerator)
              /\ out' = o \o <<[t |-> "HMAC", gen |-> id, hmac |-> firstMoveData.hmac],
                               [t |-> "KEY", gen |-> id, number |-> firstMoveData.number,
                                key |-> revealKey(firstMoveGenerator)]>>
              /\ listeners' = Append(ls, GuessListener(id, firstMoveData))

\* start(), called with this.dice = d, the pending callbacks ls and the
\* console o: the help table, a fresh generator, its number, the HMAC line
\* and the callback that waits for the guess
Start(d, ls, o) ==
    /\ Len(gens) < MaxRounds
    /\ \E key \in randomBytes(KeyBytes) :
         LET firstMoveGenerator == FairRandomGenerator(FirstMoveRange, key)
             id == Len(gens) + 1
         IN \E firstMoveData \in generateNumber(firstMoveGenerator) :
              /\ ~firstMoveData.threw
              /\ table' = calculateProbabilities(d)
              /\ gens' = Append(gens, firstMoveGenerator)
              /\ out' = Append(o, [t |-> "HMAC", gen |-> id, hmac |-> firstMoveData.hmac])
              /\ listeners' = Append(ls, GuessListener(id, firstMoveData))

\* process.exit(code)
Exit(code) ==
    /\ proc' = "exit"
    /\ exitCode' = code
    /\ listeners' = <<>>

\* userSelectDice(): the prompt and the callback that waits for the choice
userSelectDice(ls) == listeners' = Append(ls, DiceListener)

\* playAgain(): the prompt and the callback that waits for the answer
playAgain(ls) == listeners' = Append(ls, ReplayListener)

\* "You chose the dice: [...]" and "I chose the dice: [...]"
Chose(who, d) == [t |-> "CHOSE", who |-> who, die |-> d]

\* a computerSelectDice() after which userSelectDice() is reached twice
computerSelectDiceThenTwice(ls, o) ==
    \E computerChoice \in randomInt(Len(dice)) :
        /\ computerDice' = dice[computerChoice + 1]
        /\ out' = Append(o, [t |-> "CHOSE", who |-> "computer", die |-> dice[computerChoice + 1]])
        /\ dice' = Splice(dice, computerChoice)
        /\ listeners' = ls \o <<DiceListener, DiceListener>>

\* computerSelectDice(), the console being o
computerSelectDice(ls, o) ==
    \E computerChoice \in randomInt(Len(dice)) :
        /\ computerDice' = dice[computerChoice + 1]
        /\ out' = Append(o, Chose("computer", dice[computerChoice + 1]))
        /\ dice' = Splice(dice, computerChoice)
        /\ userSelectDice(ls)

\* a performThrows() that ends without asking for a replay
performThrowsNoReplay(u, c, ls) ==
    \E userRoll \in roll(u), computerRoll \in roll(c) :
        /\ throws' = [userRoll |-> userRoll, computerRoll |-> computerRoll,
                      user |-> u, computer |-> c,
                      verdict |-> IF userRoll > computerRoll THEN "You win!"
                                  ELSE IF userRoll < computerRoll THEN "I win!"
                                  ELSE "It's a tie!"]
        /\ listeners' = ls

\* performThrows() with the dice u and c
performThrows(u, c, ls) ==
    \E userRoll \in roll(u), computerRoll \in roll(c) :
        /\ throws' = [userRoll |-> userRoll, computerRoll |-> computerRoll,
                      user |-> u, computer |-> c,
                      verdict |-> IF userRoll > computerRoll THEN "You win!"
                                  ELSE IF userRoll < computerRoll THEN "I win!"
                                  ELSE "It's a tie!"]
        /\ playAgain(ls)
\* a decision that gives the user the first move on a wrong guess
FirstMoverInverted(userGuess, computerSelection) ==
    IF userGuess # computerSelection THEN "user" ELSE "computer"

\* who makes the first move: "You guessed correctly! You make the first
\* move." or "I make the first move."
FirstMover(userGuess, computerSelection) ==
    IF userGuess = computerSelection THEN "user" ELSE "computer"

(***************************************************************************)
(* The inputs: command lines and lines typed on standard input.            *)
(***************************************************************************)
\* a configuration whose tokens are the single characters of s
Config(s) == [i \in 1..Len(s) |-> <<s[i]>>]

DieA == Config(<<"2", "2", "4", "4", "9", "9">>)
DieB == Config(<<"1", "1", "6", "6", "8", "8">>)
DieC == Config(<<"3", "3", "5", "5", "7", "7">>)
DieD == <<<<"1">>, <<"1">>, <<"1">>, <<"1">>, <<"1">>, <<>>>>
FiveFaces == Config(<<"1", "2", "3", "4", "5">>)
SevenFaces == Config(<<"1", "2", "3", "4", "5", "6", "7">>)
LetterFace == Config(<<"1", "2", "3", "x", "5", "6">>)
FractionFace == <<<<"1">>, <<"2">>, <<"3">>, <<"4">>, <<"5">>, <<"1", ".", "5">>>>

ArgvChoices ==
    { <<DieA, DieB, DieC>>,
      <<DieD, DieD, DieA, DieB>>,
      <<DieA, DieB>>,
      <<>>,
      <<DieA, DieB, FiveFaces>>,
      <<DieA, SevenFaces, DieC>>,
      <<LetterFace, DieB, DieC>>,
      <<DieA, DieB, DieC, FractionFace>> }

GuessLines ==
    { <<"X", "\n">>, <<"?", "\n">>, <<" ", "1", "x", "\n">>,
      <<"2", "\n">>, <<"\n">>, <<"-", "1", "\n">> }
DiceLines ==
    { <<"1", "\n">>, <<"3", "\n">>, <<"x", "\n">>, <<"-", "1", "\n">> }
ReplayLines == { <<"Y", "\n">>, <<"y", "\n">>, <<"N", "\n">>, <<"\n">> }

(***************************************************************************)
(* The session: the main block and the three callbacks.                    *)
(***************************************************************************)
Init ==
    /\ proc = "boot"
    /\ exitCode = -1
    /\ argv \in ArgvChoices
    /\ originalDiceConfigs = <<>>
    /\ dice = <<>>
    /\ userDice = Null
    /\ computerDice = Null
    /\ gens = <<>>
    /\ listeners = <<>>
    /\ out = <<>>
    /\ table = <<>>
    /\ throws = Null
    /\ calls = <<>>

\* the main block
Main ==
    /\ proc = "boot"
    /\ IF Len(argv) < MinArgs
       THEN /\ Exit(1)
            /\ out' = Append(out, [t |-> "ERROR"])
            /\ UNCHANGED <<originalDiceConfigs, dice, gens, table>>
       ELSE LET game == NonTransitiveDiceGame(argv)
            IN IF game.threw
               THEN /\ proc' = "exit"
                    /\ exitCode' = 0
                    /\ out' = Append(out, [t |-> "ERROR"])
                    /\ UNCHANGED <<originalDiceConfigs, dice, gens, table, listeners>>
               ELSE /\ proc' = "running"
                    /\ originalDiceConfigs' = game.originalDiceConfigs
                    /\ dice' = game.dice
                    /\ Start(game.dice, listeners, out)
                    /\ UNCHANGED exitCode
    /\ UNCHANGED <<argv, userDice, computerDice, throws, calls>>

\* the callback start() registered, run on a line of input
OnFirstMoveData ==
    /\ proc = "running"
    /\ listeners # <<>>
    /\ Head(listeners).kind = "guess"
    /\ \E line \in GuessLines :
         LET l == Head(listeners)
             rest == Tail(listeners)
             input == Trim(line)
             seen == Append(out, [t |-> "IN", gen |-> l.gen, input |-> input])
             userGuess == ParseInt(input)
         IN IF input = <<"X">>
            THEN /\ Exit(0)
                 /\ out' = seen
                 /\ UNCHANGED <<dice, computerDice, gens, table>>
            ELSE IF input = <<"?">>
            THEN /\ Start(dice, rest, seen)
                 /\ UNCHANGED <<proc, exitCode, dice, computerDice>>
            ELSE IF userGuess.isNaN \/ userGuess.n < 0 \/ userGuess.n > 1
            THEN /\ Start(dice, rest, seen)
                 /\ UNCHANGED <<proc, exitCode, dice, computerDice>>
            ELSE LET computerSelection == l.data.number
                     key == revealKey(gens[l.gen])
                     first == FirstMover(userGuess.n, computerSelection)
                     shown == seen \o <<[t |-> "KEY", gen |-> l.gen,
                                         number |-> computerSelection, key |-> key],
                                        [t |-> "FIRST", who |-> first]>>
                 IN /\ IF first = "user"
                       THEN /\ out' = shown
                            /\ userSelectDice(rest)
                            /\ UNCHANGED <<dice, computerDice>>
                       ELSE computerSelectDice(rest, shown)
                    /\ UNCHANGED <<proc, exitCode, gens, table>>
    /\ UNCHANGED <<argv, originalDiceConfigs, userDice, throws, calls>>

\* the callback userSelectDice() registered, run on a line of input
OnDiceData ==
    /\ proc = "running"
    /\ listeners # <<>>
    /\ Head(listeners).kind = "dice"
    /\ \E line \in DiceLines :
         LET rest == Tail(listeners)
             input == ParseInt(Trim(line))
         IN IF input.isNaN \/ input.n < 0 \/ input.n >= Len(dice)
            THEN /\ userSelectDice(rest)
                 /\ UNCHANGED <<dice, userDice, computerDice, throws, out>>
            ELSE LET chosen == dice[input.n + 1]
                     left == Splice(dice, input.n)
                 IN \E c \in randomInt(Len(left)) :
                      /\ userDice' = chosen
                      /\ dice' = left
                      /\ computerDice' = left[c + 1]
                      /\ out' = out \o <<Chose("user", chosen), Chose("computer", left[c + 1])>>
                      /\ performThrows(chosen, left[c + 1], rest)
    /\ UNCHANGED <<proc, exitCode, argv, originalDiceConfigs, gens, table, calls>>

\* a replay that goes on with the dice that are left
RestoredDiceStale == dice

\* this.originalDiceConfigs.map(config => new Dice(config.split(',').map(Number)))
RestoredDice == StripThrew(DiceOf(originalDiceConfigs))

\* the callback playAgain() registered, run on a line of input
OnReplayData ==
    /\ proc = "running"
    /\ listeners # <<>>
    /\ Head(listeners).kind = "replay"
    /\ \E line \in ReplayLines :
         LET rest == Tail(listeners)
             input == ToUpperCase(Trim(line))
         IN IF input = <<"Y">>
            THEN LET fresh == RestoredDice
                 IN /\ dice' = fresh
                    /\ Start(fresh, rest, out)
                    /\ UNCHANGED <<proc, exitCode>>
            ELSE /\ Exit(0)
                 /\ UNCHANGED <<dice, gens, out, table>>
    /\ throws' = Null
    /\ UNCHANGED <<argv, originalDiceConfigs, userDice, computerDice, calls>>

Next == Main \/ OnFirstMoveData \/ OnDiceData \/ OnReplayData

Spec == Init /\ [][Next]_vars
(***************************************************************************)
(* A client of class FairRandomGenerator: it constructs instances with any *)
(* range and calls their methods in any order.                             *)
(***************************************************************************)
ClientRanges == (0 - 1)..MaxRange

InitClient ==
    /\ proc = "client"
    /\ exitCode = -1
    /\ argv = <<>>
    /\ originalDiceConfigs = <<>>
    /\ dice = <<>>
    /\ userDice = Null
    /\ computerDice = Null
    /\ gens = <<>>
    /\ listeners = <<>>
    /\ out = <<>>
    /\ table = <<>>
    /\ throws = Null
    /\ calls = <<>>

\* new FairRandomGenerator(range)
ClientNew ==
    /\ proc = "client"
    /\ Len(gens) < MaxClientGens
    /\ \E range \in ClientRanges, key \in randomBytes(KeyBytes) :
         gens' = Append(gens, FairRandomGenerator(range, key))
    /\ UNCHANGED <<proc, exitCode, argv, originalDiceConfigs, dice, userDice,
                   computerDice, listeners, out, table, throws, calls>>

\* g.generateNumber()
ClientGenerateNumber ==
    /\ proc = "client"
    /\ Len(calls) < MaxClientCalls
    /\ \E g \in 1..Len(gens) : \E r \in generateNumber(gens[g]) :
         calls' = Append(calls, [op |-> "generateNumber", gen |-> g, result |-> r])
    /\ UNCHANGED <<proc, exitCode, argv, originalDiceConfigs, dice, userDice,
                   computerDice, gens, listeners, out, table, throws>>

\* a revealKey() that wipes the key once it has returned it
ClientRevealKeyWiping ==
    /\ proc = "client"
    /\ Len(calls) < MaxClientCalls
    /\ \E g \in 1..Len(gens) :
         /\ calls' = Append(calls, [op |-> "revealKey", gen |-> g,
                                    result |-> revealKey(gens[g])])
         /\ gens' = [gens EXCEPT ![g].key = [i \in 1..Len(gens[g].key) |-> 0]]
    /\ UNCHANGED <<proc, exitCode, argv, originalDiceConfigs, dice, userDice,
                   computerDice, listeners, out, table, throws>>

\* g.revealKey()
ClientRevealKey ==
    /\ proc = "client"
    /\ Len(calls) < MaxClientCalls
    /\ \E g \in 1..Len(gens) :
         calls' = Append(calls, [op |-> "revealKey", gen |-> g,
                                 result |-> revealKey(gens[g])])
    /\ UNCHANGED <<proc, exitCode, argv, originalDiceConfigs, dice, userDice,
                   computerDice, gens, listeners, out, table, throws>>

NextClient == ClientNew \/ ClientGenerateNumber \/ ClientRevealKey

SpecClient == InitClient /\ [][NextClient]_vars
(***************************************************************************)
(* Properties.                                                             *)
(***************************************************************************)
Events(t) == {k \in 1..Len(out) : out[k].t = t}

\* the first-move callback accepts a line as a guess
ValidGuess(input) ==
    /\ input # <<"X">>
    /\ input # <<"?">>
    /\ ~ParseInt(input).isNaN
    /\ ParseInt(input).n >= 0
    /\ ParseInt(input).n <= 1

\* C1: a round's KEY line is written only after the HMAC line of that round
\* and after a valid guess for that round was read
KeyAfterCommitmentAndGuess ==
    \A k \in Events("KEY") :
        \E i \in Events("HMAC") : \E j \in Events("IN") :
            /\ i < j
            /\ j < k
            /\ out[i].gen = out[k].gen
            /\ out[j].gen = out[k].gen
            /\ ValidGuess(out[j].input)

KeyRevealed == Events("KEY") # {}

\* the bytes a verifier decodes from a hex string
FromHex(hex) ==
    [i \in 1..(Len(hex) \div 2) |-> 16 * HexVal(hex[2 * i - 1]) + HexVal(hex[2 * i])]

\* C2: recomputing the MAC from the revealed key and the revealed value gives
\* the commitment written earlier in the same round
RevealMatchesCommitment ==
    \A k \in Events("KEY") :
        /\ \E i \in Events("HMAC") : i < k /\ out[i].gen = out[k].gen
        /\ \A i \in Events("HMAC") :
             out[i].gen = out[k].gen =>
                Hmac(FromHex(out[k].key), ToString(out[k].number)) = out[i].hmac

RevealedBothValues ==
    \E k \in Events("KEY") : \E m \in Events("KEY") :
        out[k].number = 0 /\ out[m].number = 1

\* C3: a second generateNumber() on an instance fails or returns what the
\* first call returned
GenerateAtMostOnce ==
    \A i \in 1..Len(calls) : \A j \in 1..Len(calls) :
        (/\ i < j
         /\ calls[i].op = "generateNumber"
         /\ calls[j].op = "generateNumber"
         /\ calls[i].gen = calls[j].gen)
        => (calls[j].result.threw \/ calls[j].result = calls[i].result)

\* C4: every HMAC line comes from a generator of its own, and no two of
\* them were computed under the same key
FreshKeyPerRound ==
    \A i \in Events("HMAC") :
        /\ out[i].gen \in 1..Len(gens)
        /\ \E n \in randomInt(FirstMoveRange) :
             out[i].hmac = Hmac(gens[out[i].gen].key, ToString(n))
        /\ \A j \in Events("HMAC") :
             i # j => /\ out[i].gen # out[j].gen
                      /\ gens[out[i].gen].key # gens[out[j].gen].key

TwoRoundsAfterAbandonOrReplay ==
    /\ Cardinality(Events("HMAC")) >= 2
    /\ \E j \in Events("IN") : ~ValidGuess(out[j].input)

\* C5: when the dice have been thrown, a commitment over a face index was
\* written for the throw
ThrowIsProtocolRound ==
    throws # Null =>
        \E i \in Events("HMAC") : gens[out[i].gen].range = Len(throws.computer.values)

\* the ordered face pairs (x of a, y of b) with x > y
PairsWon(a, b) ==
    Cardinality({p \in (1..Len(a.values)) \X (1..Len(b.values)) :
                    a.values[p[1]] > b.values[p[2]]})

\* C6: every off-diagonal entry is the number of winning face pairs over 36
EntriesArePairCounts ==
    table # <<>> =>
        LET d == StripThrew(DiceOf(originalDiceConfigs))
        IN \A i \in 1..Len(d) : \A j \in 1..Len(d) :
              i # j => table[i][j] = ToFixed(PairsWon(d[i], d[j]), Faces * Faces)

\* C7: for the dice A, B, C the entries A over B, B over C and C over A exceed
\* 0.5, and every diagonal entry of every table is the marker "-"
CycleEntriesAboveHalf ==
    table # <<>> =>
        /\ \A i \in 1..Len(table) : table[i][i] = <<"-">>
        /\ argv = <<DieA, DieB, DieC>> =>
              /\ FixedValue(table[1][2]) * 2 > Pow(Radix, FixedDigits)
              /\ FixedValue(table[2][3]) * 2 > Pow(Radix, FixedDigits)
              /\ FixedValue(table[3][1]) * 2 > Pow(Radix, FixedDigits)

CycleTableShown == table # <<>> /\ argv = <<DieA, DieB, DieC>>

\* C8: no FairRandomGenerator instance has a range that is not positive
NoInstanceWithNonPositiveRange ==
    \A g \in 1..Len(gens) : gens[g].range > 0

\* a configuration of exactly six integer faces
SixIntegers(config) ==
    /\ Len(config) = Faces
    /\ \A k \in 1..Len(config) : Number(config[k]).isInteger

\* C9: a face list that is not six integers makes the Dice constructor throw,
\* and with such a configuration on the command line the game never starts
InvalidDieStopsGame ==
    /\ \A i \in 1..Len(argv) : ~SixIntegers(argv[i]) => DiceOf(argv)[i].threw
    /\ (\E i \in 1..Len(argv) : ~SixIntegers(argv[i])) =>
          /\ proc # "running"
          /\ listeners = <<>>
          /\ gens = <<>>
          /\ Events("HMAC") = {}

InvalidDieRejected ==
    /\ proc = "exit"
    /\ Len(argv) >= MinArgs
    /\ \E i \in 1..Len(argv) : ~SixIntegers(argv[i])

\* C10: generateNumber() on a positive range returns a value of [0, range),
\* and each value of [0, range) is one it can return
GeneratedInRange ==
    /\ \A c \in 1..Len(calls) :
         (calls[c].op = "generateNumber" /\ gens[calls[c].gen].range > 0) =>
            /\ ~calls[c].result.threw
            /\ calls[c].result.number \in 0..(gens[calls[c].gen].range - 1)
    /\ \A g \in 1..Len(gens) :
         gens[g].range > 0 =>
            {r.number : r \in generateNumber(gens[g])} = 0..(gens[g].range - 1)

GeneratedTopOfRange ==
    \E c \in 1..Len(calls) :
        /\ calls[c].op = "generateNumber"
        /\ gens[calls[c].gen].range = FirstMoveRange
        /\ calls[c].result.number = FirstMoveRange - 1
\* C12: neither revealKey() nor generateNumber() changes the key or the range
\* of an instance, and every revealKey() returns the key the instance holds
\* since its construction, before and after generateNumber() alike
RevealKeyReturnsConstructionKey ==
    [][/\ \A g \in 1..Len(gens) : g <= Len(gens') /\ gens'[g] = gens[g]
       /\ Len(calls') > Len(calls) =>
            LET c == calls'[Len(calls')]
            IN c.op = "revealKey" =>
                  /\ FromHex(c.result) = gens[c.gen].key
                  /\ gens[c.gen].key = EntropyBytes(KeyBytes, c.gen)]_vars

RevealedBeforeAndAfterGenerate ==
    \E i \in 1..Len(calls) : \E j \in 1..Len(calls) : \E k \in 1..Len(calls) :
        /\ i < j
        /\ j < k
        /\ calls[i].op = "revealKey"
        /\ calls[j].op = "generateNumber"
        /\ calls[k].op = "revealKey"
        /\ calls[i].gen = calls[j].gen
        /\ calls[j].gen = calls[k].gen
        /\ calls[i].result = calls[k].result
\* C13: whoever moves first was decided by a valid guess read after the HMAC
\* line of the round and by the number under that HMAC: the user moves first
\* exactly when the guess is that number; a rejected line is followed by a
\* new commitment or by nothing, never by a decision
FirstMoveDecidedByCommittedValue ==
    /\ \A k \in Events("FIRST") :
         /\ k >= 4
         /\ out[k - 1].t = "KEY"
         /\ out[k - 2].t = "IN"
         /\ out[k - 2].gen = out[k - 1].gen
         /\ ValidGuess(out[k - 2].input)
         /\ \E i \in Events("HMAC") :
              /\ i < k - 2
              /\ out[i].gen = out[k - 1].gen
              /\ out[i].hmac = Hmac(gens[out[i].gen].key, ToString(out[k - 1].number))
         /\ (out[k].who = "user") <=> (ParseInt(out[k - 2].input).n = out[k - 1].number)
         /\ out[k].who \in {"user", "computer"}
    /\ \A j \in Events("IN") :
         /\ Cardinality({i \in Events("IN") : out[i].gen = out[j].gen}) = 1
         /\ (~ValidGuess(out[j].input) /\ j < Len(out)) => out[j + 1].t = "HMAC"

BothFirstMoversSeen ==
    /\ \E k \in Events("FIRST") : out[k].who = "user"
    /\ \E k \in Events("FIRST") : out[k].who = "computer"
\* the place in out of the latest decision on the first move
LastFirst == CHOOSE k \in Events("FIRST") : \A m \in Events("FIRST") : m <= k

\* C14: when the computer moved first, the die it rolls is the die it
\* announced right after the decision
ComputerThrowsAnnouncedDie ==
    (throws # Null /\ out[LastFirst].who = "computer") =>
        /\ out[LastFirst + 1].t = "CHOSE"
        /\ out[LastFirst + 1].who = "computer"
        /\ throws.computer = out[LastFirst + 1].die
\* C15: the two dice that are thrown stand at different places of the
\* configuration list, and both are dice of that list
ThrownDiceDiffer ==
    throws # Null =>
        /\ throws.user.pos # throws.computer.pos
        /\ throws.user.pos \in 1..Len(argv)
        /\ throws.computer.pos \in 1..Len(argv)
        /\ throws.user = StripThrew(DiceOf(argv))[throws.user.pos]
        /\ throws.computer = StripThrew(DiceOf(argv))[throws.computer.pos]
        /\ throws.user = userDice
        /\ throws.computer = computerDice

\* thrown after the computer chose first, among four dice of which two have
\* the same faces
ThrownAfterComputerChoseFirst ==
    /\ throws # Null
    /\ out[LastFirst].who = "computer"
    /\ Len(argv) > MinDice
    /\ throws.user.values = throws.computer.values
\* the dice of the command line, in its order
ConfiguredDice ==
    [i \in 1..Len(argv) |->
        [values |-> [k \in 1..Len(argv[i]) |-> Number(argv[i][k]).n], pos |-> i]]

GuessPending == listeners # <<>> /\ Head(listeners).kind = "guess"
DicePending == listeners # <<>> /\ Head(listeners).kind = "dice"
ReplayPending == listeners # <<>> /\ Head(listeners).kind = "replay"

\* C16: while the game waits for a first-move guess, the pool holds every
\* configured die in the configured order
FullPoolWhenGuessing == GuessPending => dice = ConfiguredDice

GuessingAfterReplay == GuessPending /\ Events("CHOSE") # {}
\* C17: while the session runs exactly one callback waits for input, and none
\* before it started or after it ended; a waiting first-move callback belongs
\* to the latest generator, the only round whose key can still be revealed
OneHandlerPending ==
    /\ proc = "running" =>
          /\ Len(listeners) = 1
          /\ GuessPending \/ DicePending \/ ReplayPending
    /\ proc # "running" => listeners = <<>>
    /\ \A h \in 1..Len(listeners) :
          listeners[h].kind = "guess" =>
             /\ listeners[h].gen = Len(gens)
             /\ \A k \in Events("KEY") : out[k].gen # listeners[h].gen

DicePendingAfterAbandonedRound ==
    /\ DicePending
    /\ Cardinality(Events("HMAC")) >= 2
    /\ Cardinality(Events("KEY")) = 1
(***************************************************************************)
(* The user who answers: the session is not left waiting for ever at the   *)
(* first-move prompt, nor at the die prompt. A rejected guess asks again   *)
(* and a rejected die index leaves the state as it was, so a session that  *)
(* leaves these prompts has been given a valid guess (or X) and a valid    *)
(* die index.                                                              *)
(***************************************************************************)
UserAnswers == []<>(~GuessPending) /\ []<>(~DicePending)

\* the session ends on X at the first-move prompt
ExitByX ==
    /\ GuessPending
    /\ out'[Len(out')].t = "IN"
    /\ out'[Len(out')].input = <<"X">>

\* C18: with a user who answers, every awaited guess and every awaited die
\* choice leads to the replay prompt or to the end of the session; the throws
\* follow the die choice in the same step; and a running session ends only on
\* X at the first-move prompt or on an answer at the replay prompt
EveryGameReachesReplay ==
    /\ UserAnswers => [](GuessPending => <>(ReplayPending \/ proc = "exit"))
    /\ UserAnswers => [](DicePending => <>ReplayPending)
    /\ [][(DicePending /\ ~DicePending') => (ReplayPending' /\ throws' # Null)]_vars
    /\ [][(proc = "running" /\ proc' = "exit") => (ExitByX \/ ReplayPending)]_vars

ReplayPromptReached == ReplayPending /\ throws # Null /\ Len(gens) = MaxRounds

====
